---------------------------- MODULE Spec2Model ----------------------------
(***************************************************************************)
(* The EmotionDetection component (emotion detection with speech): the     *)
(* emotion-sampling and logging pipeline, the speech-recognition           *)
(* listen/restart cycle, the CSV export and the component's lifecycle.     *)
(*                                                                         *)
(* The JavaScript runtime is single threaded: every action below is one    *)
(* callback (or one continuation of an async function after its await)     *)
(* run to completion.  Timers are untimed: a pending timer may fire at     *)
(* any moment.                                                             *)
(*                                                                         *)
(* Text is a sequence of tokens (words, " ", ",", ":", "\n", digits), so   *)
(* that joining, formatting and URI-encoding are computed, not assumed.    *)
(***************************************************************************)
EXTENDS Naturals, Sequences, FiniteSets, TLC

VARIABLES
    mounted,         \* the component is mounted (videoRef/canvasRef attached)
    loadPc,          \* position of loadModels: "awaiting" | "done"
    modelsLoaded,    \* useState(false)
    error,           \* useState("")
    speechApi,       \* the host exposes (webkit)SpeechRecognition
    recognitionRef,  \* useRef(null): "null" | "recognition"
    recState,        \* the recognition object: "idle" | "listening" | "stopping" | "ending"
    isListening,     \* useState(false)
    restartTimers,   \* pending setTimeout(..., 5000) callbacks of onend
    cameraPc,        \* position of startVideo: "idle" | "awaiting" | "done"
    srcObject,       \* videoRef.current.srcObject holds the stream
    intervals,       \* active setInterval(..., 1000) timers
    inflight,        \* interval callbacks suspended at the await of detectAllFaces
    emotionBuffer,   \* useRef([]): sequence of [emotion, confidence]
    emotionsLog,     \* useState([]): sequence of [time, emotion, speech]
    currentEmotion,  \* useState("")
    produced,        \* history: number of samples pushed so far
    lastOp,          \* history: the callback that ran last, with its input's size
    saved            \* history: the file saved by the callback that ran last

vars == <<mounted, loadPc, modelsLoaded, error, speechApi, recognitionRef,
          recState, isListening, restartTimers, cameraPc, srcObject,
          intervals, inflight, emotionBuffer, emotionsLog, currentEmotion,
          produced, lastOp, saved>>

---------------------------------------------------------------------------
(* Bounds of the model *)

MaxLog == 2

MaxConf == 1

MaxFaces == 1

MaxTimers == 1

MaxIntervals == 2

MaxInflight == 2

(* Program constants *)

BatchSize == 5

---------------------------------------------------------------------------
(* Data *)

\* The keys of a face's expressions object, in the object's key order.
EmotionKeys == <<"happy", "sad">>

\* Confidence scores, as integers on a grid (0 is the lowest score).
ConfLevels == 0 .. MaxConf

\* A face's expressions: a score for every key.
Expressions == [1 .. Len(EmotionKeys) -> ConfLevels]

\* What one inference call can resolve to: zero or more faces.
Detections == UNION {[1 .. n -> Expressions] : n \in 0 .. MaxFaces}

\* Transcripts of an utterance, as tokens.
Transcripts == {<<"hi", " ", "there">>, <<"ok">>}

\* Local wall-clock readings at a commit, in seconds since midnight (08:00:01).
Times == {28801}

MaxSamples == BatchSize * MaxLog

\* lastOp: the callback's name; for a tick the number of detected faces and the
\* buffer as it was right after the push (line 137), <<>> if there was no
\* push; for onresult the transcript.
Op(name) == [op |-> name, faces |-> 0, pushed |-> <<>>, transcript |-> <<>>]

---------------------------------------------------------------------------
(* Pure functions of the component *)

Digits == <<"0", "1", "2", "3", "4", "5", "6", "7", "8", "9">>

Pad2(n) == <<Digits[(n \div 10) + 1], Digits[(n % 10) + 1]>>

\* toLocaleTimeString('en-US', {hour12: false, hour/minute/second: '2-digit'})
ToLocaleTimeString(now) ==
    Pad2(now \div 3600) \o <<":">> \o Pad2((now \div 60) % 60) \o <<":">> \o Pad2(now % 60)

\* .replace(/:/g, ':')
ReplaceColons(text) == [i \in 1 .. Len(text) |-> IF text[i] = ":" THEN ":" ELSE text[i]]

\* Object.entries(emotions).sort((a, b) => b[1] - a[1])[0]: the sort is
\* stable, so among equal scores the first key in key order comes first.
StrongestEmotion(expressions) ==
    LET best == CHOOSE i \in 1 .. Len(EmotionKeys) :
                    /\ \A j \in 1 .. Len(EmotionKeys) : expressions[j] <= expressions[i]
                    /\ \A j \in 1 .. (i - 1) : expressions[j] < expressions[i]
    IN  [emotion |-> EmotionKeys[best], confidence |-> expressions[best]]

\* detections.length > 0
HasFace(detections) == Len(detections) > 0

\* Variants of BufferFull with the threshold off by one.
BufferFullEarly(buffer) == Len(buffer) >= BatchSize - 1

BufferFullLate(buffer) == Len(buffer) > BatchSize

\* emotionBuffer.current.length >= 5
BufferFull(buffer) == Len(buffer) >= BatchSize

\* Variant of Pick that keeps the previous winner on equal confidence.
PickFirst(prev, current) == IF prev.confidence >= current.confidence THEN prev ELSE current

\* (prev, current) => (prev.confidence > current.confidence ? prev : current)
Pick(prev, current) == IF prev.confidence > current.confidence THEN prev ELSE current

\* emotionBuffer.current.reduce(Pick): no initial value, so the first
\* element is the initial accumulator.
RECURSIVE ReduceFrom(_, _, _)
ReduceFrom(acc, buffer, i) ==
    IF i > Len(buffer) THEN acc ELSE ReduceFrom(Pick(acc, buffer[i]), buffer, i + 1)

BestEmotion(buffer) == ReduceFrom(buffer[1], buffer, 2)

LogEntry(now, best) ==
    [time |-> ReplaceColons(ToLocaleTimeString(now)), emotion |-> best.emotion, speech |-> <<>>]

\* Variant of AppendLog that puts the new entry first.
PrependLog(prevLogs, logEntry) == <<logEntry>> \o prevLogs

\* (prevLogs) => [...prevLogs, logEntry]
AppendLog(prevLogs, logEntry) == Append(prevLogs, logEntry)

\* Variants of AmendLast: amending the first entry, amending every entry,
\* and logging a transcript of its own when there is no entry to amend.
AmendFirst(prevLogs, transcript) ==
    IF Len(prevLogs) > 0
    THEN [index \in 1 .. Len(prevLogs) |->
            IF index = 1
            THEN [prevLogs[index] EXCEPT !.speech = transcript]
            ELSE prevLogs[index]]
    ELSE prevLogs

AmendAll(prevLogs, transcript) ==
    [index \in 1 .. Len(prevLogs) |-> [prevLogs[index] EXCEPT !.speech = transcript]]

AmendOrAppend(prevLogs, transcript) ==
    IF Len(prevLogs) > 0
    THEN [index \in 1 .. Len(prevLogs) |->
            IF index = Len(prevLogs)
            THEN [prevLogs[index] EXCEPT !.speech = transcript]
            ELSE prevLogs[index]]
    ELSE <<[time |-> <<>>, emotion |-> "", speech |-> transcript]>>

\* The updater of onresult: replace the speech of the last entry, if any.
AmendLast(prevLogs, transcript) ==
    IF Len(prevLogs) > 0
    THEN [index \in 1 .. Len(prevLogs) |->
            IF index = Len(prevLogs)
            THEN [prevLogs[index] EXCEPT !.speech = transcript]
            ELSE prevLogs[index]]
    ELSE prevLogs

\* `${log.time},${log.emotion},${log.speech}`
CsvRow(log) == log.time \o <<",">> \o <<log.emotion>> \o <<",">> \o log.speech

\* Variant of JoinRows that ends every row with a line feed.
RECURSIVE JoinRowsTrailing(_, _)
JoinRowsTrailing(rows, i) ==
    IF i > Len(rows) THEN <<>>
    ELSE rows[i] \o <<"\n">> \o JoinRowsTrailing(rows, i + 1)

\* rows.join("\n")
RECURSIVE JoinRows(_, _)
JoinRows(rows, i) ==
    IF i > Len(rows) THEN <<>>
    ELSE IF i = Len(rows) THEN rows[i]
    ELSE rows[i] \o <<"\n">> \o JoinRows(rows, i + 1)

CsvHeader == <<"data:text/csv;charset=utf-8,">> \o <<"Time", ",", "Emotion", ",", "Speech", "\n">>

CsvContent(logs) ==
    CsvHeader \o JoinRows([i \in 1 .. Len(logs) |-> CsvRow(logs[i])], 1)

\* encodeURI: a space and a line feed are escaped, the rest is kept.
EncodeURI(text) ==
    [i \in 1 .. Len(text) |->
        IF text[i] = " " THEN "%20" ELSE IF text[i] = "\n" THEN "%0A" ELSE text[i]]

\* What the browser saves for a data: URI: the text after the media type,
\* with its escapes decoded.
DataUriBody(uri) ==
    [i \in 1 .. (Len(uri) - 1) |->
        IF uri[i + 1] = "%20" THEN " " ELSE IF uri[i + 1] = "%0A" THEN "\n" ELSE uri[i + 1]]

---------------------------------------------------------------------------
(* The recognition object (the browser's SpeechRecognition, continuous = false) *)

\* start() succeeds only on a recognition that is not started; otherwise it
\* throws InvalidStateError.
StartSucceeds == recState = "idle"

\* stop(): a listening recognition stops capturing; it may still return a
\* result for the audio captured so far, and then ends.
AfterStop(state) == IF state = "listening" THEN "stopping" ELSE state

---------------------------------------------------------------------------
(* Initial state: the component has just mounted and loadModels() is awaiting *)

Init ==
    /\ mounted = TRUE
    /\ loadPc = "awaiting"
    /\ modelsLoaded = FALSE
    /\ error = ""
    /\ speechApi \in BOOLEAN
    /\ recognitionRef = "null"
    /\ recState = "idle"
    /\ isListening = FALSE
    /\ restartTimers = 0
    /\ cameraPc = "idle"
    /\ srcObject = FALSE
    /\ intervals = 0
    /\ inflight = 0
    /\ emotionBuffer = <<>>
    /\ emotionsLog = <<>>
    /\ currentEmotion = ""
    /\ produced = 0
    /\ lastOp = Op("mount")
    /\ saved = <<>>

---------------------------------------------------------------------------
(* loadModels, startVideo, initializeSpeechRecognition *)

\* Variant of LoadModelsResolve that creates the recognition without looking
\* for the API in window.
LoadModelsResolveNoCheck ==
    /\ loadPc = "awaiting"
    /\ loadPc' = "done"
    /\ modelsLoaded' = TRUE
    /\ cameraPc' = "awaiting"
    /\ recognitionRef' = "recognition"
    /\ lastOp' = Op("loadModels")
    /\ saved' = <<>>
    /\ UNCHANGED <<mounted, error, speechApi, recState, isListening, restartTimers, srcObject,
                   intervals, inflight, emotionBuffer, emotionsLog, currentEmotion, produced>>

\* The await of Promise.all resolves: setModelsLoaded(true); startVideo();
\* initializeSpeechRecognition().
LoadModelsResolve ==
    /\ loadPc = "awaiting"
    /\ loadPc' = "done"
    /\ modelsLoaded' = TRUE
    /\ cameraPc' = "awaiting"
    /\ IF speechApi
       THEN /\ recognitionRef' = "recognition"
            /\ error' = error
       ELSE /\ recognitionRef' = recognitionRef
            /\ error' = "Speech recognition is not supported in this browser"
    /\ lastOp' = Op("loadModels")
    /\ saved' = <<>>
    /\ UNCHANGED <<mounted, speechApi, recState, isListening, restartTimers, srcObject,
                   intervals, inflight, emotionBuffer, emotionsLog, currentEmotion, produced>>

\* Variant of LoadModelsReject that starts the video all the same.
LoadModelsRejectStartsVideo ==
    /\ loadPc = "awaiting"
    /\ loadPc' = "done"
    /\ error' = "Error loading models"
    /\ cameraPc' = "awaiting"
    /\ lastOp' = Op("loadModelsFailed")
    /\ saved' = <<>>
    /\ UNCHANGED <<mounted, modelsLoaded, speechApi, recognitionRef, recState, isListening,
                   restartTimers, srcObject, intervals, inflight, emotionBuffer,
                   emotionsLog, currentEmotion, produced>>

\* The await rejects: the catch block.
LoadModelsReject ==
    /\ loadPc = "awaiting"
    /\ loadPc' = "done"
    /\ error' = "Error loading models"
    /\ lastOp' = Op("loadModelsFailed")
    /\ saved' = <<>>
    /\ UNCHANGED <<mounted, modelsLoaded, speechApi, recognitionRef, recState, isListening,
                   restartTimers, cameraPc, srcObject, intervals, inflight, emotionBuffer,
                   emotionsLog, currentEmotion, produced>>

\* getUserMedia resolves: the stream is attached if the video element exists.
CameraGranted ==
    /\ cameraPc = "awaiting"
    /\ cameraPc' = "done"
    /\ srcObject' = IF mounted THEN TRUE ELSE srcObject
    /\ lastOp' = Op("startVideo")
    /\ saved' = <<>>
    /\ UNCHANGED <<mounted, loadPc, modelsLoaded, error, speechApi, recognitionRef, recState,
                   isListening, restartTimers, intervals, inflight, emotionBuffer,
                   emotionsLog, currentEmotion, produced>>

\* getUserMedia rejects: the catch block.
CameraDenied ==
    /\ cameraPc = "awaiting"
    /\ cameraPc' = "done"
    /\ error' = "Error accessing webcam"
    /\ lastOp' = Op("startVideoFailed")
    /\ saved' = <<>>
    /\ UNCHANGED <<mounted, loadPc, modelsLoaded, speechApi, recognitionRef, recState,
                   isListening, restartTimers, srcObject, intervals, inflight,
                   emotionBuffer, emotionsLog, currentEmotion, produced>>

---------------------------------------------------------------------------
(* The effect's cleanup *)

\* Unmount: React detaches videoRef and canvasRef and runs the cleanup, which
\* calls stop() on the recognition if there is one.
Unmount ==
    /\ mounted
    /\ mounted' = FALSE
    /\ recState' = IF recognitionRef # "null" THEN AfterStop(recState) ELSE recState
    /\ lastOp' = Op("unmount")
    /\ saved' = <<>>
    /\ UNCHANGED <<loadPc, modelsLoaded, error, speechApi, recognitionRef, isListening,
                   restartTimers, cameraPc, srcObject, intervals, inflight, emotionBuffer,
                   emotionsLog, currentEmotion, produced>>

---------------------------------------------------------------------------
(* handleVideoPlay and the interval callback *)

\* The video's play event (the element exists and plays a stream).  If the
\* recognition exists and isListening is false, start() is called first: when
\* it throws, the handler ends there and no interval is created.
HandleVideoPlay ==
    /\ mounted
    /\ srcObject
    /\ intervals < MaxIntervals
    /\ IF recognitionRef # "null" /\ ~isListening
       THEN IF StartSucceeds
            THEN /\ recState' = "listening"
                 /\ isListening' = TRUE
                 /\ intervals' = intervals + 1
            ELSE UNCHANGED <<recState, isListening, intervals>>
       ELSE /\ intervals' = intervals + 1
            /\ UNCHANGED <<recState, isListening>>
    /\ lastOp' = Op("handleVideoPlay")
    /\ saved' = <<>>
    /\ UNCHANGED <<mounted, loadPc, modelsLoaded, error, speechApi, recognitionRef,
                   restartTimers, cameraPc, srcObject, inflight, emotionBuffer,
                   emotionsLog, currentEmotion, produced>>

\* An interval fires: without the refs the callback returns at once,
\* otherwise it calls detectAllFaces and suspends at the await.
TickFire ==
    /\ intervals > 0
    /\ inflight < MaxInflight
    /\ inflight' = IF mounted THEN inflight + 1 ELSE inflight
    /\ lastOp' = Op("tickFire")
    /\ saved' = <<>>
    /\ UNCHANGED <<mounted, loadPc, modelsLoaded, error, speechApi, recognitionRef, recState,
                   isListening, restartTimers, cameraPc, srcObject, intervals,
                   emotionBuffer, emotionsLog, currentEmotion, produced>>

\* Variant of OnFace that shows the tick's own sample as the current emotion.
OnFaceShowsSample(buffer, logs, current, sample, now) ==
    LET pushed == Append(buffer, sample) IN
    IF BufferFull(pushed)
    THEN [buffer |-> <<>>,
          logs |-> AppendLog(logs, LogEntry(now, BestEmotion(pushed))),
          current |-> sample.emotion,
          pushed |-> pushed]
    ELSE [buffer |-> pushed, logs |-> logs, current |-> current, pushed |-> pushed]

\* Variant of OnFace whose flush carries the newest sample over into the
\* next batch.
OnFaceCarriesOver(buffer, logs, current, sample, now) ==
    LET pushed == Append(buffer, sample) IN
    IF BufferFull(pushed)
    THEN [buffer |-> <<sample>>,
          logs |-> AppendLog(logs, LogEntry(now, BestEmotion(pushed))),
          current |-> BestEmotion(pushed).emotion,
          pushed |-> pushed]
    ELSE [buffer |-> pushed, logs |-> logs, current |-> current, pushed |-> pushed]

\* Lines 133-155: the sample is pushed; a full buffer is reduced to one log
\* entry and replaced by an empty one.
OnFace(buffer, logs, current, sample, now) ==
    LET pushed == Append(buffer, sample) IN
    IF BufferFull(pushed)
    THEN [buffer |-> <<>>,
          logs |-> AppendLog(logs, LogEntry(now, BestEmotion(pushed))),
          current |-> BestEmotion(pushed).emotion,
          pushed |-> pushed]
    ELSE [buffer |-> pushed, logs |-> logs, current |-> current, pushed |-> pushed]

\* Variant of OnNoFace that starts a new batch when no face is seen.
OnNoFaceClears(buffer, logs, current) ==
    [buffer |-> <<>>, logs |-> logs, current |-> current, pushed |-> <<>>]

\* detections.length > 0 is false: the callback ends.
OnNoFace(buffer, logs, current) ==
    [buffer |-> buffer, logs |-> logs, current |-> current, pushed |-> <<>>]

\* Variant of TickResolve that goes on without the canvas.
TickResolveIgnoresUnmount(detections, now) ==
    /\ inflight > 0
    /\ Len(detections) > 0 => produced < MaxSamples
    /\ inflight' = inflight - 1
    /\ LET after == IF HasFace(detections)
                     THEN OnFace(emotionBuffer, emotionsLog, currentEmotion,
                                 StrongestEmotion(detections[1]), now)
                     ELSE OnNoFace(emotionBuffer, emotionsLog, currentEmotion)
       IN  /\ emotionBuffer' = after.buffer
           /\ emotionsLog' = after.logs
           /\ currentEmotion' = after.current
           /\ produced' = produced + (IF after.pushed # <<>> THEN 1 ELSE 0)
           /\ lastOp' = [Op("tick") EXCEPT !.faces = Len(detections),
                                           !.pushed = after.pushed]
    /\ saved' = <<>>
    /\ UNCHANGED <<mounted, loadPc, modelsLoaded, error, speechApi, recognitionRef, recState,
                   isListening, restartTimers, cameraPc, srcObject, intervals>>

\* The rest of the callback once the inference has resolved with detections,
\* the clock reading now.  After an unmount canvasRef.current is null and
\* the drawing code throws before any sample is taken.
TickResolve(detections, now) ==
    /\ inflight > 0
    /\ Len(detections) > 0 => produced < MaxSamples
    /\ inflight' = inflight - 1
    /\ IF mounted
       THEN LET after == IF HasFace(detections)
                         THEN OnFace(emotionBuffer, emotionsLog, currentEmotion,
                                     StrongestEmotion(detections[1]), now)
                         ELSE OnNoFace(emotionBuffer, emotionsLog, currentEmotion)
            IN  /\ emotionBuffer' = after.buffer
                /\ emotionsLog' = after.logs
                /\ currentEmotion' = after.current
                /\ produced' = produced + (IF after.pushed # <<>> THEN 1 ELSE 0)
                /\ lastOp' = [Op("tick") EXCEPT !.faces = Len(detections),
                                                !.pushed = after.pushed]
       ELSE /\ UNCHANGED <<emotionBuffer, emotionsLog, currentEmotion, produced>>
            /\ lastOp' = [Op("tick") EXCEPT !.faces = Len(detections)]
    /\ saved' = <<>>
    /\ UNCHANGED <<mounted, loadPc, modelsLoaded, error, speechApi, recognitionRef, recState,
                   isListening, restartTimers, cameraPc, srcObject, intervals>>

\* Variant of TickReject in which the failure takes the timers down.
TickRejectStopsTimer ==
    /\ inflight > 0
    /\ inflight' = 0
    /\ intervals' = 0
    /\ lastOp' = Op("tickFailed")
    /\ saved' = <<>>
    /\ UNCHANGED <<mounted, loadPc, modelsLoaded, error, speechApi, recognitionRef, recState,
                   isListening, restartTimers, cameraPc, srcObject,
                   emotionBuffer, emotionsLog, currentEmotion, produced>>

\* The inference rejects: the async callback ends with an unhandled rejection.
TickReject ==
    /\ inflight > 0
    /\ inflight' = inflight - 1
    /\ lastOp' = Op("tickFailed")
    /\ saved' = <<>>
    /\ UNCHANGED <<mounted, loadPc, modelsLoaded, error, speechApi, recognitionRef, recState,
                   isListening, restartTimers, cameraPc, srcObject, intervals,
                   emotionBuffer, emotionsLog, currentEmotion, produced>>

---------------------------------------------------------------------------
(* The recognition's callbacks *)

\* onresult: a listening (or just stopped) recognition returns the final
\* transcript of one utterance; being non-continuous it then ends.
OnResult(transcript) ==
    /\ recState \in {"listening", "stopping"}
    /\ recState' = "ending"
    /\ emotionsLog' = AmendLast(emotionsLog, transcript)
    /\ lastOp' = [Op("onresult") EXCEPT !.transcript = transcript]
    /\ saved' = <<>>
    /\ UNCHANGED <<mounted, loadPc, modelsLoaded, error, speechApi, recognitionRef,
                   isListening, restartTimers, cameraPc, srcObject, intervals, inflight,
                   emotionBuffer, currentEmotion, produced>>

\* Variant of OnEnd that sets no restart timer.
OnEndNoRestart ==
    /\ recState # "idle"
    /\ restartTimers < MaxTimers
    /\ recState' = "idle"
    /\ isListening' = FALSE
    /\ lastOp' = Op("onend")
    /\ saved' = <<>>
    /\ UNCHANGED <<mounted, loadPc, modelsLoaded, error, speechApi, recognitionRef,
                   restartTimers, cameraPc, srcObject, intervals, inflight, emotionBuffer,
                   emotionsLog, currentEmotion, produced>>

\* onend: the session is over (after a result, a stop(), or silence):
\* setIsListening(false) and a restart timer is set.
OnEnd ==
    /\ recState # "idle"
    /\ restartTimers < MaxTimers
    /\ recState' = "idle"
    /\ isListening' = FALSE
    /\ restartTimers' = restartTimers + 1
    /\ lastOp' = Op("onend")
    /\ saved' = <<>>
    /\ UNCHANGED <<mounted, loadPc, modelsLoaded, error, speechApi, recognitionRef,
                   cameraPc, srcObject, intervals, inflight, emotionBuffer, emotionsLog,
                   currentEmotion, produced>>

\* The restart timer fires: start() and setIsListening(true) if the ref holds
\* a recognition; a start() that throws ends the callback.
RestartTimer ==
    /\ restartTimers > 0
    /\ restartTimers' = restartTimers - 1
    /\ IF recognitionRef # "null" /\ StartSucceeds
       THEN /\ recState' = "listening"
            /\ isListening' = TRUE
       ELSE UNCHANGED <<recState, isListening>>
    /\ lastOp' = Op("restart")
    /\ saved' = <<>>
    /\ UNCHANGED <<mounted, loadPc, modelsLoaded, error, speechApi, recognitionRef,
                   cameraPc, srcObject, intervals, inflight, emotionBuffer, emotionsLog,
                   currentEmotion, produced>>

---------------------------------------------------------------------------
(* downloadLogs *)

\* The Download Logs button is rendered only while the log is not empty.
DownloadLogs ==
    /\ mounted
    /\ Len(emotionsLog) > 0
    /\ saved' = DataUriBody(EncodeURI(CsvContent(emotionsLog)))
    /\ lastOp' = Op("downloadLogs")
    /\ UNCHANGED <<mounted, loadPc, modelsLoaded, error, speechApi, recognitionRef, recState,
                   isListening, restartTimers, cameraPc, srcObject, intervals, inflight,
                   emotionBuffer, emotionsLog, currentEmotion, produced>>

---------------------------------------------------------------------------

Next ==
    \/ LoadModelsResolve
    \/ LoadModelsReject
    \/ CameraGranted
    \/ CameraDenied
    \/ Unmount
    \/ HandleVideoPlay
    \/ TickFire
    \/ \E detections \in Detections, now \in Times : TickResolve(detections, now)
    \/ TickReject
    \/ \E transcript \in Transcripts : OnResult(transcript)
    \/ OnEnd
    \/ RestartTimer
    \/ DownloadLogs

Spec == Init /\ [][Next]_vars

\* A timer that was set fires: the restart timer is not starved for ever.
FairSpec == Spec /\ WF_vars(RestartTimer)

---------------------------------------------------------------------------
(* Properties *)

LastEntry(logs) == logs[Len(logs)]

\* The last callback was a tick that pushed a sample / that reduced a batch.
TickPushed == lastOp.op = "tick" /\ lastOp.pushed # <<>>

TickCommitted == lastOp.op = "tick" /\ Len(lastOp.pushed) >= BatchSize

MaxConfidence(batch) ==
    CHOOSE c \in {batch[i].confidence : i \in 1 .. Len(batch)} :
        \A i \in 1 .. Len(batch) : batch[i].confidence <= c

FirstMax(batch) ==
    batch[CHOOSE i \in 1 .. Len(batch) :
            /\ batch[i].confidence = MaxConfidence(batch)
            /\ \A j \in 1 .. (i - 1) : batch[j].confidence < MaxConfidence(batch)]

LastMax(batch) ==
    batch[CHOOSE i \in 1 .. Len(batch) :
            /\ batch[i].confidence = MaxConfidence(batch)
            /\ \A j \in (i + 1) .. Len(batch) : batch[j].confidence < MaxConfidence(batch)]

\* The lines of a text: the runs of tokens between line feeds.
RECURSIVE SplitLines(_)
SplitLines(text) ==
    IF \A i \in 1 .. Len(text) : text[i] # "\n"
    THEN <<text>>
    ELSE LET k == CHOOSE i \in 1 .. Len(text) :
                      text[i] = "\n" /\ \A j \in 1 .. (i - 1) : text[j] # "\n"
         IN  <<SubSeq(text, 1, k - 1)>> \o SplitLines(SubSeq(text, k + 1, Len(text)))

\* C1: a tick appends a log entry exactly when its push brings the buffer to
\* BatchSize samples; it then appends exactly one entry, keeps the earlier
\* entries and leaves the buffer empty; and while fewer than BatchSize
\* samples have been produced the log is empty.
C1_Step ==
    lastOp'.op = "tick" =>
        LET brings == mounted /\ lastOp'.faces > 0 /\ Len(emotionBuffer) + 1 = BatchSize
        IN  /\ brings => /\ Len(emotionsLog') = Len(emotionsLog) + 1
                         /\ SubSeq(emotionsLog', 1, Len(emotionsLog)) = emotionsLog
                         /\ emotionBuffer' = <<>>
            /\ ~brings => emotionsLog' = emotionsLog

C1_FlushExactlyAtBatch ==
    /\ [](produced < BatchSize => emotionsLog = <<>>)
    /\ [][C1_Step]_vars

C1_Witness ==
    /\ TickCommitted
    /\ produced = BatchSize
    /\ Len(emotionsLog) = 1
    /\ emotionBuffer = <<>>

\* C2 as stated: the committed emotion is that of the first sample of
\* maximum confidence in the batch.
C2_FirstMaxWins ==
    TickCommitted =>
        /\ Len(emotionsLog) > 0
        /\ LastEntry(emotionsLog).emotion = FirstMax(lastOp.pushed).emotion

\* C2 as amended: the committed emotion is that of the last sample of
\* maximum confidence in the batch.
C2_LastMaxWins ==
    TickCommitted =>
        /\ Len(emotionsLog) > 0
        /\ LastEntry(emotionsLog).emotion = LastMax(lastOp.pushed).emotion
        /\ LastEntry(emotionsLog).speech = <<>>
        /\ currentEmotion = LastMax(lastOp.pushed).emotion

C2_Witness ==
    /\ TickCommitted
    /\ FirstMax(lastOp.pushed).emotion # LastMax(lastOp.pushed).emotion
    /\ LastEntry(emotionsLog).emotion = LastMax(lastOp.pushed).emotion

\* C3: a transcript that arrives while the log is not empty replaces the
\* speech of the entry that is last at that moment and nothing else: its time
\* and emotion, the earlier entries, the length and the buffer are unchanged.
C3_AmendsOnlyLastSpeech ==
    [][(lastOp'.op = "onresult" /\ Len(emotionsLog) > 0) =>
        /\ Len(emotionsLog') = Len(emotionsLog)
        /\ \A i \in 1 .. (Len(emotionsLog) - 1) : emotionsLog'[i] = emotionsLog[i]
        /\ LastEntry(emotionsLog').time = LastEntry(emotionsLog).time
        /\ LastEntry(emotionsLog').emotion = LastEntry(emotionsLog).emotion
        /\ LastEntry(emotionsLog').speech = lastOp'.transcript
        /\ emotionBuffer' = emotionBuffer]_vars

C3_Witness ==
    /\ lastOp.op = "onresult"
    /\ Len(emotionsLog) = 2
    /\ emotionsLog[1].speech # lastOp.transcript
    /\ emotionsLog[2].speech = lastOp.transcript
    /\ emotionBuffer = <<>>

\* C4: a transcript that arrives while the log is empty leaves it empty, and
\* every entry committed afterwards starts with an empty speech.
C4_DroppedWhenEmpty ==
    [][/\ (lastOp'.op = "onresult" /\ emotionsLog = <<>>) => emotionsLog' = <<>>
       /\ Len(emotionsLog') > Len(emotionsLog) => LastEntry(emotionsLog').speech = <<>>]_vars

C4_Witness ==
    /\ lastOp.op = "onresult"
    /\ lastOp.transcript # <<>>
    /\ emotionsLog = <<>>
    /\ emotionBuffer # <<>>

\* C5: the log is append-only: its length never decreases and the time and
\* emotion at every position never change.
C5_AppendOnly ==
    [][/\ Len(emotionsLog') >= Len(emotionsLog)
       /\ \A i \in 1 .. Len(emotionsLog) :
            /\ emotionsLog'[i].time = emotionsLog[i].time
            /\ emotionsLog'[i].emotion = emotionsLog[i].emotion]_vars

C5_Witness ==
    /\ TickCommitted
    /\ Len(emotionsLog) = 2
    /\ emotionsLog[1].emotion # emotionsLog[2].emotion
    /\ emotionsLog[1].speech # <<>>

\* C6 as stated: once an entry's speech holds a transcript, it is never
\* written again.
C6_SpeechWrittenOnce ==
    [][\A i \in 1 .. Len(emotionsLog) :
        emotionsLog[i].speech # <<>> => emotionsLog'[i].speech = emotionsLog[i].speech]_vars

\* C6 as amended: an entry's speech changes only while the entry is last in
\* the log, and only by a speech result, which sets it to that transcript.
C6_OnlyLastSpeechChanges ==
    [][\A i \in 1 .. Len(emotionsLog) :
        emotionsLog'[i].speech # emotionsLog[i].speech =>
            /\ i = Len(emotionsLog)
            /\ Len(emotionsLog') = Len(emotionsLog)
            /\ lastOp'.op = "onresult"
            /\ emotionsLog'[i].speech = lastOp'.transcript]_vars

C6_Witness ==
    /\ lastOp.op = "onresult"
    /\ Len(emotionsLog) = 2
    /\ emotionsLog[1].speech # <<>>
    /\ emotionsLog[1].speech # emotionsLog[2].speech
    /\ emotionsLog[2].speech = lastOp.transcript

\* C7: after the unmount the recognition is never listening again (the
\* cleanup's stop() has it leave "listening", so it listens only if it is
\* started again).
C7_NoStartAfterUnmount == ~mounted => recState # "listening"

\* C8: the saved file is the header line followed by one line
\* time,emotion,speech per entry, in log order, with no trailing line feed;
\* the export leaves the log as it was.
C8_FileOfLog ==
    lastOp.op = "downloadLogs" =>
        LET lines == SplitLines(saved) IN
        /\ Len(lines) = Len(emotionsLog) + 1
        /\ lines[1] = <<"Time", ",", "Emotion", ",", "Speech">>
        /\ \A i \in 1 .. Len(emotionsLog) :
            lines[i + 1] = emotionsLog[i].time \o <<",", emotionsLog[i].emotion, ",">>
                               \o emotionsLog[i].speech
        /\ \A i \in 1 .. Len(emotionsLog) :
            emotionsLog[i].time = <<"0", "8", ":", "0", "0", ":", "0", "1">>

C8_Export ==
    /\ []C8_FileOfLog
    /\ [][lastOp'.op = "downloadLogs" => emotionsLog' = emotionsLog]_vars

C8_Witness ==
    /\ lastOp.op = "downloadLogs"
    /\ Len(emotionsLog) = 2
    /\ emotionsLog[1].speech = <<>>
    /\ emotionsLog[2].speech = <<"hi", " ", "there">>

\* C9: a tick whose inference reports no face leaves the buffer, the log and
\* the current emotion unchanged.
C9_NoFaceNoChange ==
    [][(lastOp'.op = "tick" /\ lastOp'.faces = 0) =>
        UNCHANGED <<emotionBuffer, emotionsLog, currentEmotion>>]_vars

C9_Witness ==
    /\ lastOp.op = "tick"
    /\ lastOp.faces = 0
    /\ mounted
    /\ emotionBuffer # <<>>
    /\ emotionsLog # <<>>

\* C10: between callbacks the buffer holds fewer than BatchSize samples: it
\* is empty after a tick that committed, and it is the pushed buffer, still
\* below BatchSize, after a tick that pushed without committing.
C10_BufferBelowBatch ==
    /\ Len(emotionBuffer) \in 0 .. (BatchSize - 1)
    /\ TickCommitted => emotionBuffer = <<>>
    /\ (TickPushed /\ ~TickCommitted) => emotionBuffer = lastOp.pushed

C10_Witness ==
    /\ TickPushed
    /\ Len(emotionBuffer) = BatchSize - 1
    /\ Len(emotionsLog) = 1

\* C11: a tick whose inference fails changes neither the buffer, the log nor
\* the current emotion, and leaves every interval timer in place: after it the
\* interval can fire again whenever a mounted component has room for a call.
C11_FailedTickStep ==
    lastOp'.op = "tickFailed" =>
        /\ UNCHANGED <<emotionBuffer, emotionsLog, currentEmotion, produced>>
        /\ intervals' = intervals
        /\ intervals' > 0

C11_FailedTickSkips ==
    /\ []((lastOp.op = "tickFailed" /\ inflight < MaxInflight) => ENABLED TickFire)
    /\ [][C11_FailedTickStep]_vars

C11_Witness ==
    /\ lastOp.op = "tickFailed"
    /\ mounted
    /\ emotionBuffer # <<>>
    /\ emotionsLog # <<>>

\* C12: on a host without a speech-recognition API, initialising sets the
\* error to the unsupported message, no recognition exists or is started, no
\* restart is scheduled, every entry's speech stays empty, and a tick still
\* commits a batch of BatchSize samples as the entry of its strongest sample.
C12_NoSpeechState ==
    ~speechApi =>
        /\ recognitionRef = "null"
        /\ recState = "idle"
        /\ ~isListening
        /\ restartTimers = 0
        /\ \A i \in 1 .. Len(emotionsLog) : emotionsLog[i].speech = <<>>
        /\ Len(emotionsLog) = produced \div BatchSize
        /\ TickCommitted =>
            /\ Len(lastOp.pushed) = BatchSize
            /\ emotionBuffer = <<>>
            /\ LastEntry(emotionsLog).emotion = LastMax(lastOp.pushed).emotion

C12_SpeechUnsupported ==
    /\ []C12_NoSpeechState
    /\ [][(lastOp'.op = "loadModels" /\ ~speechApi) =>
            error' = "Speech recognition is not supported in this browser"]_vars

C12_Witness ==
    /\ ~speechApi
    /\ TickCommitted
    /\ Len(emotionsLog) = 2
    /\ error = "Speech recognition is not supported in this browser"

\* C13: once loading the models has failed, the error is the model-load
\* error, modelsLoaded is false, the camera was never requested, no
\* recognition was created, no interval or inference call exists, and the
\* buffer and the log are empty.
C13_LoadFailureBlocks ==
    (loadPc = "done" /\ ~modelsLoaded) =>
        /\ error = "Error loading models"
        /\ cameraPc = "idle"
        /\ ~srcObject
        /\ recognitionRef = "null"
        /\ recState = "idle"
        /\ restartTimers = 0
        /\ intervals = 0
        /\ inflight = 0
        /\ emotionBuffer = <<>>
        /\ emotionsLog = <<>>
        /\ lastOp.op \in {"loadModelsFailed", "unmount"}

C13_Witness ==
    /\ loadPc = "done"
    /\ ~modelsLoaded
    /\ speechApi
    /\ lastOp.op = "loadModelsFailed"

\* C14: every end of a recognition session sets isListening to false and
\* adds exactly one restart timer; with the timer firing eventually, a
\* mounted component's recognition is listening again after every end.
C14_EndStep ==
    lastOp'.op = "onend" =>
        /\ recState' = "idle"
        /\ ~isListening'
        /\ restartTimers' = restartTimers + 1

C14_ListenCycle ==
    /\ [][C14_EndStep]_vars
    /\ ((mounted /\ lastOp.op = "onend") ~> (recState = "listening" \/ ~mounted))

C14_Witness ==
    /\ lastOp.op = "restart"
    /\ mounted
    /\ recState = "listening"
    /\ isListening
    /\ restartTimers = 0

\* C15: with inference calls overlapping and speech callbacks in between,
\* every pushed sample is in the buffer or in exactly one committed batch:
\* a push extends the buffer by its one sample, a commit reduces exactly
\* BatchSize samples, and the log holds produced \div BatchSize entries.
C15_PushStep ==
    (lastOp'.op = "tick" /\ lastOp'.pushed # <<>>) =>
        /\ Len(lastOp'.pushed) = Len(emotionBuffer) + 1
        /\ SubSeq(lastOp'.pushed, 1, Len(emotionBuffer)) = emotionBuffer
        /\ produced' = produced + 1

C15_Counts ==
    /\ produced = BatchSize * Len(emotionsLog) + Len(emotionBuffer)
    /\ Len(emotionsLog) = produced \div BatchSize
    /\ TickCommitted => Len(lastOp.pushed) = BatchSize

C15_NoTornWrites ==
    /\ []C15_Counts
    /\ [][C15_PushStep]_vars

C15_Witness ==
    /\ TickCommitted
    /\ inflight > 0
    /\ Len(emotionsLog) = 2
    /\ emotionsLog[1].speech # <<>>

\* C16: at most one sampling interval is active at any time.
C16_OneInterval == intervals <= 1

\* C17: every start() finds the recognition stopped: the restart timer calls
\* start() when the ref holds a recognition, handleVideoPlay when it does and
\* isListening is false.
C17_StartFindsStopped ==
    [][((lastOp'.op = "restart" /\ recognitionRef # "null")
        \/ (lastOp'.op = "handleVideoPlay" /\ recognitionRef # "null" /\ ~isListening))
       => recState = "idle"]_vars

\* C18: no callback that runs after the unmount appends a sample to the
\* buffer or an entry to the log, and no interval that fires after it starts
\* an inference call.
C18_NothingAfterUnmount ==
    [][~mounted =>
        /\ emotionBuffer' = emotionBuffer
        /\ Len(emotionsLog') = Len(emotionsLog)
        /\ produced' = produced
        /\ inflight' <= inflight]_vars

C18_Witness ==
    /\ ~mounted
    /\ lastOp.op = "tick"
    /\ lastOp.faces > 0
    /\ lastOp.pushed = <<>>
    /\ emotionBuffer # <<>>

\* C19: the current emotion is "" while the log is empty and the emotion of
\* the last entry otherwise; a speech result does not change it.
C19_CurrentMatchesLog ==
    currentEmotion = IF emotionsLog = <<>> THEN "" ELSE LastEntry(emotionsLog).emotion

C19_CurrentIsLastEmotion ==
    /\ []C19_CurrentMatchesLog
    /\ [][lastOp'.op = "onresult" => currentEmotion' = currentEmotion]_vars

C19_Witness ==
    /\ lastOp.op = "onresult"
    /\ Len(emotionsLog) = 2
    /\ emotionsLog[1].emotion # emotionsLog[2].emotion
    /\ emotionsLog[2].speech # <<>>
    /\ currentEmotion = emotionsLog[2].emotion

=============================================================================
